---- MODULE Spec2Model ----
(***************************************************************************)
(* Model of the audio-samples-organizer batch pipeline:                    *)
(*   src/src/files.py   Cmd, RenameFileCmdGetter, TitleCaseSanitizer-      *)
(*                      Formatter, RegexReplaceFileNameFormatter,          *)
(*                      update_files                                       *)
(*   src/src/audio.py   AudioTargetOutput, AudioScaling,                   *)
(*                      AudioConversionCmdGetter                           *)
(*   src/src/alesis.py  AudioScaling, _is_supported_audio_file             *)
(*                                                                         *)
(* A file name is a sequence of one-character strings.  A path is a pair   *)
(* <<directory, name>>.  The file system is a function from the paths that *)
(* exist to the file stored there.                                         *)
(***************************************************************************)
EXTENDS Integers, Sequences, FiniteSets, TLC

VARIABLES
    platform,   \* "posix" or "nt": the os.rename the interpreter runs on
    getter,     \* the cmd_getter handed to update_files
    fs,         \* path -> [id, rate, width]: the files on disk
    fsStart,    \* fs when the current run of update_files began
    pc,         \* position inside update_files
    walked,     \* paths os.walk has already yielded in this run
    cur,        \* file get_command is working on, or NoFile
    ci,         \* index into the formatter chain
    fileNew,    \* name held by file_new in get_command
    stemNew,    \* stem_new of the running RegexReplaceFileNameFormatter call
    counter,    \* counter of the running RegexReplaceFileNameFormatter call
    commands,   \* the staged commands, in discovery order
    pv,         \* number of descriptions printed by the preview loop
    answer,     \* what input() returned, or NoAnswer
    ei,         \* number of commands whose execute() returned
    attempted,  \* number of commands whose execute() was called
    out,        \* the lines printed so far in this run
    rerun,      \* TRUE once update_files has been started a second time
    firstOk,    \* TRUE when the first run printed its final summary
    lastCall,   \* the last finished RegexReplaceFileNameFormatter call
    tc,         \* TitleCaseSanitizerFormatter applied to a drawn name
    sc          \* AudioScaling applied to drawn audio properties and caps

vars == <<platform, getter, fs, fsStart, pc, walked, cur, ci, fileNew, stemNew,
          counter, commands, pv, answer, ei, attempted, out, rerun, firstOk,
          lastCall, tc, sc>>

batchVars == <<platform, getter, fs, fsStart, pc, walked, cur, ci, fileNew,
               stemNew, counter, commands, pv, answer, ei, attempted, out,
               rerun, firstOk, lastCall>>

-----------------------------------------------------------------------------
(* Bounds *)

\* Largest number of files in the tree at the start.
MaxFiles == 2

\* Longest name drawn for the naming-policy function on its own.
MaxNameLen == 3

-----------------------------------------------------------------------------
(* Characters and str methods *)

LowerLetters ==
    <<"a", "b", "c", "d", "e", "f", "g", "h", "i", "j", "k", "l", "m",
      "n", "o", "p", "q", "r", "s", "t", "u", "v", "w", "x", "y", "z">>
UpperLetters ==
    <<"A", "B", "C", "D", "E", "F", "G", "H", "I", "J", "K", "L", "M",
      "N", "O", "P", "Q", "R", "S", "T", "U", "V", "W", "X", "Y", "Z">>
DigitChars == <<"0", "1", "2", "3", "4", "5", "6", "7", "8", "9">>

Range(s) == {s[i] : i \in DOMAIN s}

IsLower(c) == c \in Range(LowerLetters)
IsUpper(c) == c \in Range(UpperLetters)
IsCased(c) == IsLower(c) \/ IsUpper(c)
IsDigit(c) == c \in Range(DigitChars)
IsAlnum(c) == IsCased(c) \/ IsDigit(c)
IsSpace(c) == c = " "

IndexIn(c, letters) == CHOOSE i \in DOMAIN letters : letters[i] = c

ToLower(c) == IF IsUpper(c) THEN LowerLetters[IndexIn(c, UpperLetters)] ELSE c
ToUpper(c) == IF IsLower(c) THEN UpperLetters[IndexIn(c, LowerLetters)] ELSE c

\* str.lower()
Lower(s) == [i \in DOMAIN s |-> ToLower(s[i])]

\* str.lstrip(), str.rstrip(), str.strip() with the default whitespace set
RECURSIVE LStrip(_)
LStrip(s) == IF s # <<>> /\ IsSpace(Head(s)) THEN LStrip(Tail(s)) ELSE s

RECURSIVE RStrip(_)
RStrip(s) ==
    IF s # <<>> /\ IsSpace(s[Len(s)]) THEN RStrip(SubSeq(s, 1, Len(s) - 1)) ELSE s

Strip(s) == RStrip(LStrip(s))

\* str.strip(".")
RECURSIVE LStripDot(_)
LStripDot(s) == IF s # <<>> /\ Head(s) = "." THEN LStripDot(Tail(s)) ELSE s

RECURSIVE RStripDot(_)
RStripDot(s) ==
    IF s # <<>> /\ s[Len(s)] = "." THEN RStripDot(SubSeq(s, 1, Len(s) - 1)) ELSE s

StripDot(s) == RStripDot(LStripDot(s))

\* str.title(): a cased character is upper-cased when the character before it
\* is uncased (or there is none) and lower-cased otherwise.
TitleStr(s) ==
    [i \in DOMAIN s |->
        IF IsCased(s[i])
        THEN IF i > 1 /\ IsCased(s[i - 1]) THEN ToLower(s[i]) ELSE ToUpper(s[i])
        ELSE s[i]]

\* str.endswith(suffix)
EndsWith(s, suffix) ==
    /\ Len(suffix) <= Len(s)
    /\ SubSeq(s, Len(s) - Len(suffix) + 1, Len(s)) = suffix

\* str.startswith(prefix)
StartsWith(s, prefix) ==
    /\ Len(prefix) <= Len(s)
    /\ SubSeq(s, 1, Len(prefix)) = prefix

\* str(n) for n >= 0
RECURSIVE Decimal(_)
Decimal(n) ==
    IF n < 10 THEN <<DigitChars[n + 1]>>
    ELSE Decimal(n \div 10) \o <<DigitChars[(n % 10) + 1]>>

-----------------------------------------------------------------------------
(* pathlib.PurePath.suffix and .stem *)

\* str.rfind("."), 0 when there is no dot (positions count from 1)
RFindDot(name) ==
    IF \E i \in DOMAIN name : name[i] = "."
    THEN CHOOSE i \in DOMAIN name :
            name[i] = "." /\ \A j \in DOMAIN name : name[j] = "." => j <= i
    ELSE 0

\* a dot splits the name when it is neither its first nor its last character
HasSuffix(name) == 1 < RFindDot(name) /\ RFindDot(name) < Len(name)

PathSuffix(name) ==
    IF HasSuffix(name) THEN SubSeq(name, RFindDot(name), Len(name)) ELSE <<>>

PathStem(name) ==
    IF HasSuffix(name) THEN SubSeq(name, 1, RFindDot(name) - 1) ELSE name

-----------------------------------------------------------------------------
(* TitleCaseSanitizerFormatter *)

\* re.sub("[^0-9a-zA-Z]+", " ", s): every maximal run of characters that are
\* not alphanumeric becomes one space.
RECURSIVE SubNonAlnum(_)
SubNonAlnum(s) ==
    IF s = <<>> THEN <<>>
    ELSE IF IsAlnum(Head(s)) THEN <<Head(s)>> \o SubNonAlnum(Tail(s))
    ELSE IF Len(s) > 1 /\ ~IsAlnum(s[2]) THEN SubNonAlnum(Tail(s))
    ELSE <<" ">> \o SubNonAlnum(Tail(s))

\* file.suffix.lower().strip() if file.suffix else ""
LowerSuffix(name) ==
    IF PathSuffix(name) # <<>> THEN Strip(Lower(PathSuffix(name))) ELSE <<>>

TitleCaseSanitizerFormatter(name) ==
    TitleStr(Strip(SubNonAlnum(PathStem(name)))) \o LowerSuffix(name)

\* pathlib.PurePath.with_name(name) raises ValueError for a name that is empty
\* or that is not exactly one path component
ValidName(name) == name # <<>> /\ name # <<".">>

-----------------------------------------------------------------------------
(* RegexReplaceFileNameFormatter *)

\* The replacement templates are sequences of characters and of the
\* placeholder that str.format(count=...) fills in.
CountField == "{count}"

\* The compiled patterns of the model are of two shapes:
\*   "lit"    re.compile(re.escape(s)): s wherever it occurs in the name
\*   "prefix" re.compile("^" + re.escape(s) + ".*"): a name starting with s,
\*            matched to its end
Lit(s, repl) == [kind |-> "lit", s |-> s, repl |-> repl]
Prefix(s, repl) == [kind |-> "prefix", s |-> s, repl |-> repl]

RECURSIVE Contains(_, _)
Contains(name, s) ==
    IF Len(name) < Len(s) THEN FALSE
    ELSE StartsWith(name, s) \/ Contains(Tail(name), s)

\* pattern.search(file.name)
Search(p, name) ==
    IF p.kind = "lit" THEN Contains(name, p.s) ELSE StartsWith(name, p.s)

RECURSIVE SubLit(_, _, _)
SubLit(s, repl, name) ==
    IF name = <<>> THEN <<>>
    ELSE IF StartsWith(name, s)
         THEN repl \o SubLit(s, repl, SubSeq(name, Len(s) + 1, Len(name)))
         ELSE <<Head(name)>> \o SubLit(s, repl, Tail(name))

\* pattern.sub(stem_re, file.name)
Sub(p, name) ==
    IF p.kind = "lit" THEN SubLit(p.s, p.repl, name)
    ELSE IF StartsWith(name, p.s) THEN p.repl ELSE name

\* the default of next(...)
NoStem == <<"None">>

\* next((pattern.sub(...) for pattern, stem_re in items() if pattern.search(...)), None)
RECURSIVE FirstMatchFrom(_, _, _)
FirstMatchFrom(patterns, name, i) ==
    IF i > Len(patterns) THEN NoStem
    ELSE IF Search(patterns[i], name) THEN Sub(patterns[i], name)
    ELSE FirstMatchFrom(patterns, name, i + 1)

\* a faulty variant: the last matching pattern wins
RECURSIVE LastMatchFrom(_, _, _)
LastMatchFrom(patterns, name, i) ==
    IF i < 1 THEN NoStem
    ELSE IF Search(patterns[i], name) THEN Sub(patterns[i], name)
    ELSE LastMatchFrom(patterns, name, i - 1)

StemNewLast(patterns, name) == LastMatchFrom(patterns, name, Len(patterns))

StemNew(patterns, name) == FirstMatchFrom(patterns, name, 1)

\* "if stem_new:" is false for None and for the empty string
Truthy(stem) == stem # NoStem /\ stem # <<>>

\* stem_new.format(count=counter)
RECURSIVE Format(_, _)
Format(stem, count) ==
    IF stem = <<>> THEN <<>>
    ELSE IF Head(stem) = CountField THEN Decimal(count) \o Format(Tail(stem), count)
    ELSE <<Head(stem)>> \o Format(Tail(stem), count)

\* the name bump_file_name returns once counter has the value count
BumpFileName(stem, name, count) ==
    LET formatted == Format(stem, count)
        suffix == LowerSuffix(name)
    IN  IF EndsWith(formatted, suffix) THEN formatted ELSE formatted \o suffix

-----------------------------------------------------------------------------
(* The tree *)

RootDir == "r"
SubDir == "r/sub"
SubDirName == <<"s", "u", "b">>

DirOf(path) == path[1]
NameOf(path) == path[2]

\* file.with_name(name)
WithName(path, name) == <<DirOf(path), name>>

\* pathlib.Path.exists(): a file of the tree, or the sub-directory itself
Exists(files, path) ==
    path \in DOMAIN files \/ (path = <<RootDir, SubDirName>> /\
                               \E q \in DOMAIN files : DirOf(q) = SubDir)

\* the names taken in dir
NamesIn(files, dir) ==
    {NameOf(q) : q \in {q \in DOMAIN files : DirOf(q) = dir}}
        \cup (IF dir = RootDir /\ \E q \in DOMAIN files : DirOf(q) = SubDir
              THEN {SubDirName} ELSE {})

AUDIO_TARGET_FORMAT == <<"w", "a", "v">>

\* _is_supported_audio_file: os.walk yields regular files only
IsSupportedAudioFile(path) ==
    StripDot(Strip(Lower(PathSuffix(NameOf(path))))) = AUDIO_TARGET_FORMAT

-----------------------------------------------------------------------------
(* AudioScaling *)

AUDIO_MAX_SAMPLE_RATE_HERTZ == 44100
AUDIO_MAX_SAMPLE_WIDTH_BYTES == 2

\* min(a, b)
Min(a, b) == IF b < a THEN b ELSE a

\* a faulty variant: the cap itself, whatever the input
TargetRateUpsample(audio, target) == target.max_sample_rate_hertz

target_sample_rate_hertz(audio, target) ==
    Min(audio.rate, target.max_sample_rate_hertz)

target_sample_width_bytes(audio, target) ==
    Min(audio.width, target.max_sample_width_bytes)

needs_rescaling(audio, target) ==
    \/ target_sample_width_bytes(audio, target) # audio.width
    \/ target_sample_rate_hertz(audio, target) # audio.rate

ALESIS_STRIKE_MULTIPAD_TARGET_OUTPUT ==
    [max_sample_rate_hertz |-> AUDIO_MAX_SAMPLE_RATE_HERTZ,
     max_sample_width_bytes |-> AUDIO_MAX_SAMPLE_WIDTH_BYTES]

-----------------------------------------------------------------------------
(* Commands *)

NoAudio == [id |-> <<>>, rate |-> 0, width |-> 0]

\* RenameFileCmdGetter.CmdRenameFile(file, file_new)
CmdRenameFile(file, file_new) ==
    [kind |-> "rename", file |-> file, file_new |-> file_new, audio |-> NoAudio]

\* AudioConversionCmdGetter.CmdConvertAudioFile(file, audio_scaling): the
\* decoded audio is read when the command is built
CmdConvertAudioFile(file, audio) ==
    [kind |-> "convert", file |-> file, file_new |-> file, audio |-> audio]

\* os.rename(src, dst) raises: the source is gone, the destination is a
\* directory, or (Windows only) the destination exists
RenameRaises(files, os, src, dst) ==
    \/ src \notin DOMAIN files
    \/ (Exists(files, dst) /\ dst \notin DOMAIN files)
    \/ (dst \in DOMAIN files /\ os = "nt")

\* the tree after os.rename(src, dst) returned: on POSIX an existing
\* destination file is replaced
RenameApply(files, src, dst) ==
    [q \in (DOMAIN files \ {src}) \cup {dst} |->
        IF q = dst THEN files[src] ELSE files[q]]

\* a faulty variant: the buffer is written back as it was read
ExportApplyUnscaled(files, cmd) ==
    [q \in DOMAIN files \cup {cmd.file} |->
        IF q = cmd.file THEN cmd.audio ELSE files[q]]

\* the tree after audio.export(str(file), format) returned
ExportApply(files, cmd) ==
    LET target == ALESIS_STRIKE_MULTIPAD_TARGET_OUTPUT
    IN  [q \in DOMAIN files \cup {cmd.file} |->
            IF q = cmd.file
            THEN [id |-> cmd.audio.id,
                  rate |-> target_sample_rate_hertz(cmd.audio, target),
                  width |-> target_sample_width_bytes(cmd.audio, target)]
            ELSE files[q]]

\* cmd.execute(): whether it raises, and the tree it leaves
ExecuteRaises(cmd, files, os, ioError) ==
    \/ ioError
    \/ (cmd.kind = "rename" /\ RenameRaises(files, os, cmd.file, cmd.file_new))

ExecuteApply(cmd, files) ==
    IF cmd.kind = "rename" THEN RenameApply(files, cmd.file, cmd.file_new)
    ELSE ExportApply(files, cmd)

-----------------------------------------------------------------------------
(* The inputs of a run *)

Name_t == <<"t", ".", "w", "a", "v">>
Name_t1 == <<"t", "1", ".", "w", "a", "v">>
Name_s == <<"s", ".", "w", "a", "v">>
Name_s1 == <<"s", "1", ".", "w", "a", "v">>
Name_T == <<"T", ".", "w", "a", "v">>
Name_tBang == <<"t", "!", ".", "W", "A", "V">>
Name_Bang == <<"!", ".", "w", "a", "v">>
Name_txt == <<"t", ".", "t", "x", "t">>

RootNames == {Name_t, Name_t1, Name_s, Name_s1, Name_T, Name_tBang, Name_Bang,
              Name_txt}
SubNames == {Name_t, Name_s1}

Paths == {<<RootDir, n>> : n \in RootNames} \cup {<<SubDir, n>> : n \in SubNames}

\* the pattern mappings, in insertion order
PatternsCount == <<Prefix(<<"t">>, <<"s", CountField>>)>>
PatternsNoCount == <<Lit(<<"t">>, <<"s">>)>>
PatternsTwo == <<Lit(<<"1">>, <<"k", CountField>>),
                 Prefix(<<"t">>, <<"t", CountField>>)>>
PatternsEmpty == <<Prefix(<<"s">>, <<>>)>>

TitleCase == [fn |-> "title", patterns |-> <<>>]
RegexReplace(patterns) == [fn |-> "regex", patterns |-> patterns]

RenameGetter(chain) == [kind |-> "rename", chain |-> chain]
ConvertGetter == [kind |-> "convert", chain |-> <<>>]

Getters ==
    {RenameGetter(<<TitleCase>>),
     RenameGetter(<<RegexReplace(PatternsCount)>>),
     RenameGetter(<<RegexReplace(PatternsNoCount)>>),
     RenameGetter(<<RegexReplace(PatternsTwo)>>),
     RenameGetter(<<RegexReplace(PatternsEmpty)>>),
     RenameGetter(<<RegexReplace(PatternsCount), TitleCase>>),
     ConvertGetter}

Audio(rate, width) == [rate |-> rate, width |-> width]

AudioChoices == {Audio(44100, 2), Audio(48000, 3), Audio(22050, 1)}

\* what input() may return
Answers == {<<>>, <<"y">>, <<" ", "Y", " ">>, <<"n">>, <<"y", "y">>,
            <<"y", "e", "s">>}

Trees == {S \in SUBSET Paths : Cardinality(S) <= MaxFiles}

\* the cap on the probe counter of the model: a probe that has not found a free
\* name after this many bumps has met every file of the tree more than once
MaxCounter == MaxFiles + 3

NoFile == <<>>
NoAnswer == <<"?">>
NoCall == [made |-> FALSE]

Line(k, n) == [k |-> k, n |-> n]

IdleTc == [step |-> "idle"]
IdleSc == [step |-> "idle"]

-----------------------------------------------------------------------------
(* update_files *)

Init ==
    /\ platform \in {"posix", "nt"}
    /\ getter \in Getters
    /\ \E S \in Trees :
        \E audio \in [S -> IF getter.kind = "convert" THEN AudioChoices
                                                      ELSE {Audio(44100, 2)}] :
            fs = [q \in S |-> [id |-> q, rate |-> audio[q].rate,
                                width |-> audio[q].width]]
    /\ fsStart = fs
    /\ pc = "walk"
    /\ walked = {}
    /\ cur = NoFile
    /\ ci = 0
    /\ fileNew = <<>>
    /\ stemNew = NoStem
    /\ counter = 0
    /\ commands = <<>>
    /\ pv = 0
    /\ answer = NoAnswer
    /\ ei = 0
    /\ attempted = 0
    /\ out = <<>>
    /\ rerun = FALSE
    /\ firstOk = FALSE
    /\ lastCall = NoCall
    /\ tc = IdleTc
    /\ sc = IdleSc

\* os.walk is top-down: the files of the root before those of the
\* sub-directory, in the order the operating system lists them
WalkNext(path) ==
    /\ path \in DOMAIN fs \ walked
    /\ DirOf(path) = SubDir =>
         \A q \in DOMAIN fs \ walked : DirOf(q) = SubDir

\* predicate(file) is false
WalkSkip ==
    /\ pc = "walk"
    /\ \E path \in DOMAIN fs :
        /\ WalkNext(path)
        /\ ~IsSupportedAudioFile(path)
        /\ walked' = walked \cup {path}
    /\ UNCHANGED <<platform, getter, fs, fsStart, pc, cur, ci, fileNew, stemNew,
                   counter, commands, pv, answer, ei, attempted, out, rerun,
                   firstOk, lastCall, tc, sc>>

\* AudioConversionCmdGetter.get_command
ConvertGetCommand(path) ==
    IF needs_rescaling(fs[path], ALESIS_STRIKE_MULTIPAD_TARGET_OUTPUT)
    THEN <<CmdConvertAudioFile(path, fs[path])>>
    ELSE <<>>

WalkConvert ==
    /\ pc = "walk"
    /\ getter.kind = "convert"
    /\ \E path \in DOMAIN fs :
        /\ WalkNext(path)
        /\ IsSupportedAudioFile(path)
        /\ commands' = commands \o ConvertGetCommand(path)
        /\ walked' = walked \cup {path}
    /\ UNCHANGED <<platform, getter, fs, fsStart, pc, cur, ci, fileNew, stemNew,
                   counter, pv, answer, ei, attempted, out, rerun, firstOk,
                   lastCall, tc, sc>>

\* RenameFileCmdGetter.get_command: file_new = file.with_name(file.name)
WalkRename ==
    /\ pc = "walk"
    /\ getter.kind = "rename"
    /\ \E path \in DOMAIN fs :
        /\ WalkNext(path)
        /\ IsSupportedAudioFile(path)
        /\ cur' = path
        /\ fileNew' = NameOf(path)
    /\ ci' = 1
    /\ pc' = "chain"
    /\ UNCHANGED <<platform, getter, fs, fsStart, walked, stemNew, counter,
                   commands, pv, answer, ei, attempted, out, rerun, firstOk,
                   lastCall, tc, sc>>

Formatter == getter.chain[ci]

\* file_new = file.with_name(fn(file_new)) with fn a TitleCaseSanitizerFormatter;
\* with_name raises ValueError for a name it does not accept
ApplyTitle ==
    /\ pc = "chain"
    /\ ci <= Len(getter.chain)
    /\ Formatter.fn = "title"
    /\ LET name == TitleCaseSanitizerFormatter(fileNew)
       IN  IF ValidName(name)
           THEN fileNew' = name /\ ci' = ci + 1 /\ pc' = pc
           ELSE fileNew' = fileNew /\ ci' = ci /\ pc' = "crashed"
    /\ UNCHANGED <<platform, getter, fs, fsStart, walked, cur, stemNew, counter,
                   commands, pv, answer, ei, attempted, out, rerun, firstOk,
                   lastCall, tc, sc>>

Returned(name, result, count) ==
    [made |-> TRUE, name |-> name, dir |-> DirOf(cur),
     patterns |-> Formatter.patterns, existing |-> NamesIn(fs, DirOf(cur)),
     result |-> result, count |-> count]

\* RegexReplaceFileNameFormatter.__call__ with stem_new falsy: the name is
\* returned as it came
RegexUnchanged ==
    /\ pc = "chain"
    /\ ci <= Len(getter.chain)
    /\ Formatter.fn = "regex"
    /\ ~Truthy(StemNew(Formatter.patterns, fileNew))
    /\ lastCall' = Returned(fileNew, fileNew, 0)
    /\ ci' = ci + 1
    /\ UNCHANGED <<platform, getter, fs, fsStart, pc, walked, cur, fileNew,
                   stemNew, counter, commands, pv, answer, ei, attempted, out,
                   rerun, firstOk, tc, sc>>

\* RegexReplaceFileNameFormatter.__call__ with stem_new truthy, up to the
\* first bump_file_name()
RegexMatch ==
    /\ pc = "chain"
    /\ ci <= Len(getter.chain)
    /\ Formatter.fn = "regex"
    /\ Truthy(StemNew(Formatter.patterns, fileNew))
    /\ stemNew' = StemNew(Formatter.patterns, fileNew)
    /\ counter' = 1
    /\ pc' = "probe"
    /\ UNCHANGED <<platform, getter, fs, fsStart, walked, cur, ci, fileNew,
                   commands, pv, answer, ei, attempted, out, rerun, firstOk,
                   lastCall, tc, sc>>

\* the candidate file_new of the probe loop
Candidate == BumpFileName(stemNew, fileNew, counter)

\* while file_new.exists(): file_new = bump_file_name()
ProbeBump ==
    /\ pc = "probe"
    /\ Exists(fs, WithName(cur, Candidate))
    /\ counter < MaxCounter
    /\ counter' = counter + 1
    /\ UNCHANGED <<platform, getter, fs, fsStart, pc, walked, cur, ci, fileNew,
                   stemNew, commands, pv, answer, ei, attempted, out, rerun,
                   firstOk, lastCall, tc, sc>>

\* the loop ends: return (file_new or file).name
ProbeReturn ==
    /\ pc = "probe"
    /\ ~Exists(fs, WithName(cur, Candidate))
    /\ lastCall' = Returned(fileNew, Candidate, counter)
    /\ fileNew' = Candidate
    /\ ci' = ci + 1
    /\ pc' = "chain"
    /\ stemNew' = NoStem
    /\ counter' = 0
    /\ UNCHANGED <<platform, getter, fs, fsStart, walked, cur, commands, pv,
                   answer, ei, attempted, out, rerun, firstOk, tc, sc>>

\* the end of RenameFileCmdGetter.get_command and "if cmd: commands.append(cmd)"
FinishGetCommand ==
    /\ pc = "chain"
    /\ ci > Len(getter.chain)
    /\ commands' = IF fileNew # NameOf(cur)
                   THEN Append(commands, CmdRenameFile(cur, WithName(cur, fileNew)))
                   ELSE commands
    /\ walked' = walked \cup {cur}
    /\ cur' = NoFile
    /\ ci' = 0
    /\ fileNew' = <<>>
    /\ pc' = "walk"
    /\ UNCHANGED <<platform, getter, fs, fsStart, stemNew, counter, pv, answer,
                   ei, attempted, out, rerun, firstOk, lastCall, tc, sc>>

\* the walk is over and nothing was staged
NothingToDo ==
    /\ pc = "walk"
    /\ walked = DOMAIN fs
    /\ commands = <<>>
    /\ out' = Append(out, Line("nothing", 0))
    /\ pc' = "end"
    /\ UNCHANGED <<platform, getter, fs, fsStart, walked, cur, ci, fileNew,
                   stemNew, counter, commands, pv, answer, ei, attempted, rerun,
                   firstOk, lastCall, tc, sc>>

\* the walk is over: print("The following operations will be performed : ")
StartPreview ==
    /\ pc = "walk"
    /\ walked = DOMAIN fs
    /\ commands # <<>>
    /\ out' = Append(out, Line("header", 0))
    /\ pc' = "preview"
    /\ UNCHANGED <<platform, getter, fs, fsStart, walked, cur, ci, fileNew,
                   stemNew, counter, commands, pv, answer, ei, attempted, rerun,
                   firstOk, lastCall, tc, sc>>

\* for cmd in commands: print(cmd.operation_description)
Preview ==
    /\ pc = "preview"
    /\ pv < Len(commands)
    /\ pv' = pv + 1
    /\ out' = Append(out, Line("operation", pv + 1))
    /\ UNCHANGED <<platform, getter, fs, fsStart, pc, walked, cur, ci, fileNew,
                   stemNew, counter, commands, answer, ei, attempted, rerun,
                   firstOk, lastCall, tc, sc>>

\* a faulty variant: any answer that starts with "y"
AcceptsPrefix(a) == StartsWith(Strip(Lower(a)), <<"y">>)

\* answer.lower().strip() == "y"
Accepts(a) == Strip(Lower(a)) = <<"y">>

\* answer = input(...), and the else branch: print("The operation was aborted")
Prompt ==
    /\ pc = "preview"
    /\ pv = Len(commands)
    /\ \E a \in Answers :
        /\ answer' = a
        /\ IF Accepts(a)
           THEN pc' = "execute" /\ out' = Append(out, Line("prompt", 0))
           ELSE pc' = "end" /\
                out' = out \o <<Line("prompt", 0), Line("aborted", 0)>>
    /\ UNCHANGED <<platform, getter, fs, fsStart, walked, cur, ci, fileNew,
                   stemNew, counter, commands, pv, ei, attempted, rerun, firstOk,
                   lastCall, tc, sc>>

\* for cmd in commands: cmd.execute(); print(f"DONE : ...").  An exception
\* raised by execute() is not caught: it ends update_files.
Execute ==
    /\ pc = "execute"
    /\ ei < Len(commands)
    /\ attempted' = attempted + 1
    /\ \E ioError \in BOOLEAN :
        LET cmd == commands[ei + 1]
        IN  IF ExecuteRaises(cmd, fs, platform, ioError)
            THEN /\ pc' = "crashed"
                 /\ UNCHANGED <<fs, ei, out>>
            ELSE /\ fs' = ExecuteApply(cmd, fs)
                 /\ ei' = ei + 1
                 /\ out' = Append(out, Line("done", ei + 1))
                 /\ pc' = pc
    /\ UNCHANGED <<platform, getter, fsStart, walked, cur, ci, fileNew, stemNew,
                   counter, commands, pv, answer, rerun, firstOk, lastCall, tc,
                   sc>>

\* print(f"{len(commands)} operations was performed with success.")
Summary ==
    /\ pc = "execute"
    /\ ei = Len(commands)
    /\ out' = Append(out, Line("summary", Len(commands)))
    /\ pc' = "end"
    /\ firstOk' = (firstOk \/ ~rerun)
    /\ UNCHANGED <<platform, getter, fs, fsStart, walked, cur, ci, fileNew,
                   stemNew, counter, commands, pv, answer, ei, attempted, rerun,
                   lastCall, tc, sc>>

\* update_files is called again over the same tree with the same getter
Rerun ==
    /\ pc = "end"
    /\ ~rerun
    /\ rerun' = TRUE
    /\ fsStart' = fs
    /\ pc' = "walk"
    /\ walked' = {}
    /\ commands' = <<>>
    /\ pv' = 0
    /\ answer' = NoAnswer
    /\ ei' = 0
    /\ attempted' = 0
    /\ out' = <<>>
    /\ lastCall' = NoCall
    /\ UNCHANGED <<platform, getter, fs, cur, ci, fileNew, stemNew, counter,
                   firstOk, tc, sc>>

Next ==
    \/ WalkSkip
    \/ WalkConvert
    \/ WalkRename
    \/ ApplyTitle
    \/ RegexUnchanged
    \/ RegexMatch
    \/ ProbeBump
    \/ ProbeReturn
    \/ FinishGetCommand
    \/ NothingToDo
    \/ StartPreview
    \/ Preview
    \/ Prompt
    \/ Execute
    \/ Summary
    \/ Rerun

Spec == Init /\ [][Next]_vars

-----------------------------------------------------------------------------
(* The naming policy on its own: TitleCaseSanitizerFormatter applied to a    *)
(* name, and again to the name it returned                                   *)

TitleAlphabet == {"a", "T", "1", "!", " ", "."}

TitleNames ==
    {n \in UNION {[1..k -> TitleAlphabet] : k \in 1..MaxNameLen} :
        n # <<".">> /\ n # <<".", ".">>}

BatchIdle ==
    /\ platform = "posix"
    /\ getter = RenameGetter(<<TitleCase>>)
    /\ fs = <<>>
    /\ fsStart = <<>>
    /\ pc = "idle"
    /\ walked = {}
    /\ cur = NoFile
    /\ ci = 0
    /\ fileNew = <<>>
    /\ stemNew = NoStem
    /\ counter = 0
    /\ commands = <<>>
    /\ pv = 0
    /\ answer = NoAnswer
    /\ ei = 0
    /\ attempted = 0
    /\ out = <<>>
    /\ rerun = FALSE
    /\ firstOk = FALSE
    /\ lastCall = NoCall

InitTitle ==
    /\ BatchIdle
    /\ sc = IdleSc
    /\ \E n \in TitleNames :
        tc = [step |-> "drawn", name |-> n, once |-> <<>>, twice |-> <<>>]

TitleOnce ==
    /\ tc.step = "drawn"
    /\ tc' = [tc EXCEPT !.step = "once",
                        !.once = TitleCaseSanitizerFormatter(tc.name)]
    /\ UNCHANGED <<batchVars, sc>>

\* the policy applied to the file that carries the name it produced
TitleTwice ==
    /\ tc.step = "once"
    /\ ValidName(tc.once)
    /\ tc' = [tc EXCEPT !.step = "twice",
                        !.twice = TitleCaseSanitizerFormatter(tc.once)]
    /\ UNCHANGED <<batchVars, sc>>

\* file.with_name() refuses the name the policy produced
TitleInvalid ==
    /\ tc.step = "once"
    /\ ~ValidName(tc.once)
    /\ tc' = [tc EXCEPT !.step = "error"]
    /\ UNCHANGED <<batchVars, sc>>

NextTitle == TitleOnce \/ TitleTwice \/ TitleInvalid

SpecTitle == InitTitle /\ [][NextTitle]_vars

-----------------------------------------------------------------------------
(* AudioScaling on its own *)

Rates == {8000, 22050, 44100, 48000, 96000}
Widths == 1..4

InitScaling ==
    /\ BatchIdle
    /\ tc = IdleTc
    /\ \E r \in Rates, w \in Widths, m \in Rates, wmax \in Widths :
        sc = [step |-> "drawn",
              audio |-> Audio(r, w),
              target |-> [max_sample_rate_hertz |-> m,
                          max_sample_width_bytes |-> wmax],
              rate |-> 0, width |-> 0, needs |-> FALSE]

Scale ==
    /\ sc.step = "drawn"
    /\ sc' = [sc EXCEPT
                !.step = "scaled",
                !.rate = target_sample_rate_hertz(sc.audio, sc.target),
                !.width = target_sample_width_bytes(sc.audio, sc.target),
                !.needs = needs_rescaling(sc.audio, sc.target)]
    /\ UNCHANGED <<batchVars, tc>>

NextScaling == Scale

SpecScaling == InitScaling /\ [][NextScaling]_vars

-----------------------------------------------------------------------------
(* Properties *)

Ended == pc \in {"end", "crashed"}
Accepted == answer # NoAnswer /\ Strip(Lower(answer)) = <<"y">>
Declined == answer # NoAnswer /\ Strip(Lower(answer)) # <<"y">>
Printed(line) == \E i \in DOMAIN out : out[i] = line
LastLine == IF out = <<>> THEN Line("", 0) ELSE out[Len(out)]

\* C1: execute() is called only after every staged description was printed and
\* the answer was read, and only when the answer, trimmed and lower-cased, is
\* "y"; for any other answer nothing is executed, the tree is as it was when
\* the run began and the run ends reporting that it was aborted.
C1_ConfirmationGate ==
    /\ attempted > 0 =>
        /\ Accepted
        /\ Printed(Line("prompt", 0))
        /\ \A i \in DOMAIN commands : Printed(Line("operation", i))
    /\ answer = NoAnswer => (attempted = 0 /\ fs = fsStart)
    /\ Declined =>
        /\ attempted = 0
        /\ ei = 0
        /\ fs = fsStart
        /\ pc = "end"
        /\ LastLine = Line("aborted", 0)

\* C1, witness: the empty default answer declined a batch of two commands.
C1_Witness ==
    /\ pc = "end"
    /\ answer = <<>>
    /\ Len(commands) = 2
    /\ pv = 2

\* C2: once the operator accepted, every staged command is attempted, whatever
\* commands fail, and every command that succeeded is reported as done.
C2_FaultIsolation ==
    (Ended /\ Accepted) =>
        /\ attempted = Len(commands)
        /\ \A i \in 1..ei : Printed(Line("done", i))

\* C3: every accepted run ends with the final summary, and the count in it is
\* the number of commands whose execute() succeeded.
C3_SummaryCountsSuccesses ==
    (Ended /\ Accepted) => LastLine = Line("summary", ei)

\* C4: executing a Rename whose destination exists fails and changes no file.
C4_RenameNeverOverwrites ==
    [][(/\ pc = "execute"
        /\ ei < Len(commands)
        /\ attempted' = attempted + 1
        /\ commands[ei + 1].kind = "rename"
        /\ commands[ei + 1].file_new \in DOMAIN fs)
       => (pc' = "crashed" /\ fs' = fs)]_vars

\* C5: the target rate is min(R, M) and the target width is min(W, Wmax):
\* neither exceeds the input's value nor the cap.
C5_DowngradeOnly ==
    sc.step = "scaled" =>
        /\ sc.rate <= sc.audio.rate
        /\ sc.rate <= sc.target.max_sample_rate_hertz
        /\ sc.rate \in {sc.audio.rate, sc.target.max_sample_rate_hertz}
        /\ sc.width <= sc.audio.width
        /\ sc.width <= sc.target.max_sample_width_bytes
        /\ sc.width \in {sc.audio.width, sc.target.max_sample_width_bytes}

\* C5, witness: an input above both caps was scaled down to the caps.
C5_Witness ==
    /\ sc.step = "scaled"
    /\ sc.audio = Audio(48000, 3)
    /\ sc.target = ALESIS_STRIKE_MULTIPAD_TARGET_OUTPUT
    /\ sc.rate = 44100
    /\ sc.width = 2
    /\ sc.needs

\* C6: the Sanitize-TitleCase policy applied to the name it produced returns
\* that name again.
C6_TitleCaseIdempotent ==
    tc.step = "twice" => tc.twice = tc.once

\* the patterns of a call that match the name it was given
Matching(call) ==
    {i \in DOMAIN call.patterns : Search(call.patterns[i], call.name)}

FirstMatching(call) ==
    CHOOSE i \in Matching(call) : \A j \in Matching(call) : i <= j

\* the template of the first matching pattern, put into the name
Substituted(call) == Sub(call.patterns[FirstMatching(call)], call.name)

\* the result is the substituted name at the smallest count >= 1 that is free
SmallestFreeCount(call) ==
    /\ call.count >= 1
    /\ call.result = BumpFileName(Substituted(call), call.name, call.count)
    /\ call.result \notin call.existing
    /\ \A c \in 1..(call.count - 1) :
        BumpFileName(Substituted(call), call.name, c) \in call.existing

\* C7, as claimed: the Pattern-Replace policy returns the name unchanged when
\* no pattern matches, and otherwise the template of the first matching
\* pattern at the smallest count >= 1 whose name is not taken.
C7_PatternReplaceAsClaimed ==
    lastCall.made =>
        IF Matching(lastCall) = {}
        THEN lastCall.result = lastCall.name
        ELSE SmallestFreeCount(lastCall)

\* C7, amended: the name is also returned unchanged when the substitution of
\* the first matching pattern leaves the empty string; in every other case a
\* call that returns gives the first matching pattern's template at the
\* smallest count >= 1 whose name is not taken.
C7_PatternReplace ==
    lastCall.made =>
        IF Matching(lastCall) = {} \/ Substituted(lastCall) = <<>>
        THEN lastCall.result = lastCall.name
        ELSE SmallestFreeCount(lastCall)

\* C7, witness: the second of two patterns was the first to match, and the
\* probe went past a taken name to count 2.
C7_Witness ==
    /\ lastCall.made
    /\ Len(lastCall.patterns) = 2
    /\ Matching(lastCall) = {2}
    /\ lastCall.count = 2
    /\ lastCall.result = <<"t", "2", ".", "w", "a", "v">>

UsesPatternReplace == \E i \in DOMAIN getter.chain : getter.chain[i].fn = "regex"

C9_ProbeTerminates ==
    pc = "probe" => counter <= Cardinality(NamesIn(fs, DirOf(cur))) + 1

\* C10: no two staged Rename commands share a destination, and an accepted
\* batch leaves as many files in the tree as it found.
C10_DistinctDestinations ==
    /\ \A i, j \in DOMAIN commands :
        (i # j /\ commands[i].kind = "rename" /\ commands[j].kind = "rename")
            => commands[i].file_new # commands[j].file_new
    /\ (pc = "end" /\ Accepted /\ getter.kind = "rename")
            => Cardinality(DOMAIN fs) = Cardinality(DOMAIN fsStart)

====
